---- MODULE Spec2Model ----
(***************************************************************************)
(* Cross-sectional stress engine of the beam calculator                    *)
(* (src/src/components/visualizations/StressAnalysis.js).                  *)
(*                                                                         *)
(* Numbers.  A JavaScript number is modelled as a pair <<n, d>> of         *)
(* integers with d >= 0 in lowest terms: d > 0 is the rational n/d,        *)
(* <<1,0>> is Infinity, <<-1,0>> is -Infinity and <<0,0>> is NaN.  The     *)
(* operators below follow IEEE-754 on these values (x/0, 0/0, Inf*0,       *)
(* Inf-Inf, comparisons with NaN); finite results are exact, i.e. the      *)
(* rounding of a double is not modelled, and zero carries no sign (a       *)
(* division by zero takes the sign of its numerator).  `undefined` (a      *)
(* field that is missing from an object) is the empty tuple.               *)
(*                                                                         *)
(* The accordion of the input panel (src/src/components/InputPanel.js) is  *)
(* the variable expandedSections, the array of the open sections' ids.     *)
(***************************************************************************)
EXTENDS Integers, Sequences, FiniteSets, TLC

VARIABLES beamData, results, sectionProps, stresses, stressAtPos, distribution,
          expandedSections

vars ==
  <<beamData, results, sectionProps, stresses, stressAtPos, distribution, expandedSections>>

----------------------------------------------------------------------------
(* JavaScript numbers *)

Undefined == <<>>
NaN == <<0, 0>>
Infinity == <<1, 0>>
NegInfinity == <<-1, 0>>
Zero == <<0, 1>>

AbsInt(n) == IF n < 0 THEN -n ELSE n
SignInt(n) == IF n < 0 THEN -1 ELSE IF n = 0 THEN 0 ELSE 1

RECURSIVE Gcd(_, _)
Gcd(a, b) == IF b = 0 THEN a ELSE Gcd(b, a % b)

\* <<n, d>> in lowest terms with d >= 0
Norm(n, d) ==
  IF d = 0 THEN <<SignInt(n), 0>>
  ELSE LET g == Gcd(AbsInt(n), AbsInt(d))
           s == SignInt(d)
       IN  <<s * (n \div g), s * (d \div g)>>

Num(n) == <<n, 1>>
IsNaN(x) == x = NaN
IsFinite(x) == x[2] > 0

\* a * b
Mul(a, b) ==
  LET g1 == Gcd(AbsInt(a[1]), b[2])
      g2 == Gcd(AbsInt(b[1]), a[2])
      n1 == IF g1 = 0 THEN a[1] ELSE a[1] \div g1
      d2 == IF g1 = 0 THEN b[2] ELSE b[2] \div g1
      n2 == IF g2 = 0 THEN b[1] ELSE b[1] \div g2
      d1 == IF g2 = 0 THEN a[2] ELSE a[2] \div g2
  IN  Norm(n1 * n2, d1 * d2)

\* a / b
Div(a, b) ==
  Mul(a, IF b = Zero THEN Infinity ELSE Norm(SignInt(b[1]) * b[2], AbsInt(b[1])))

\* a + b
Add(a, b) ==
  IF a[2] = 0 /\ b[2] = 0 THEN (IF a = b THEN a ELSE NaN)
  ELSE IF a[2] = 0 THEN a
  ELSE IF b[2] = 0 THEN b
  ELSE LET g == Gcd(a[2], b[2])
       IN  Norm(a[1] * (b[2] \div g) + b[1] * (a[2] \div g), (a[2] \div g) * b[2])

Neg(a) == <<-a[1], a[2]>>

\* a - b
Sub(a, b) == Add(a, Neg(b))

\* Math.abs(a)
MathAbs(a) == <<AbsInt(a[1]), a[2]>>

\* a < b  (false when either side is NaN)
Lt(a, b) ==
  IF IsNaN(a) \/ IsNaN(b) THEN FALSE
  ELSE IF a[2] = 0 /\ b[2] = 0 THEN a[1] < b[1]
  ELSE a[1] * b[2] < b[1] * a[2]

\* a >= b  (false when either side is NaN)
Ge(a, b) == ~IsNaN(a) /\ ~IsNaN(b) /\ ~Lt(a, b)

\* Math.max(a, b)
MathMax(a, b) == IF IsNaN(a) \/ IsNaN(b) THEN NaN ELSE IF Lt(a, b) THEN b ELSE a

\* a default that is taken for a missing field only
OrDefaultMissingOnly(v, dflt) == IF v = Undefined THEN dflt ELSE v

\* v || dflt on a numeric field: undefined, 0 and NaN are falsy
OrDefault(v, dflt) == IF v = Undefined \/ v = Zero \/ v = NaN THEN dflt ELSE v

\* Math.PI, to the precision of the model
MathPI == <<355, 113>>

----------------------------------------------------------------------------
(* calculateSectionProperties *)

NoType == "undefined"
SectionTypes == {"rectangular", "circular", "i-beam", "t-beam"}

\* const section = beamData.section || {};
EmptyObject ==
  [type |-> NoType, width |-> Undefined, height |-> Undefined,
   diameter |-> Undefined, flangeWidth |-> Undefined,
   flangeThickness |-> Undefined, webHeight |-> Undefined,
   webThickness |-> Undefined]

sectionOf(bd) == IF bd.section = <<>> THEN EmptyObject ELSE bd.section[1]

\* let properties = { area: 0, momentOfInertia: beamData.materialProperties.I, ... }
initialProperties(bd) ==
  [area |-> Zero, momentOfInertia |-> bd.materialProperties.I,
   centroidHeight |-> Zero, maxDistanceFromCentroid |-> Zero,
   thickness |-> Zero, firstMomentOfArea |-> Zero]

DefaultWidth == <<3, 10>>
DefaultHeight == <<1, 2>>
DefaultDiameter == <<2, 5>>
IBeamDefaultFlangeWidth == <<1, 5>>
IBeamDefaultFlangeThickness == <<1, 50>>
IBeamDefaultWebHeight == <<2, 5>>
IBeamDefaultWebThickness == <<1, 100>>
TBeamDefaultFlangeWidth == <<3, 10>>
TBeamDefaultFlangeThickness == <<1, 20>>
TBeamDefaultWebHeight == <<2, 5>>
TBeamDefaultWebThickness == <<1, 50>>

\* the rectangular case deriving the moment of inertia from the geometry
rectangularCaseDerivesInertia(section, properties) ==
  LET b == OrDefault(section.width, DefaultWidth)
      h == OrDefault(section.height, DefaultHeight)
  IN  [properties EXCEPT
         !.area = Mul(b, h),
         !.momentOfInertia = Div(Mul(b, Mul(h, Mul(h, h))), Num(12)),
         !.centroidHeight = Div(h, Num(2)),
         !.maxDistanceFromCentroid = Div(h, Num(2)),
         !.thickness = b,
         !.firstMomentOfArea = Div(Mul(Mul(b, h), h), Num(8))]

\* the rectangular case with Q = b*h*h/6
rectangularCaseWrongQ(section, properties) ==
  LET b == OrDefault(section.width, DefaultWidth)
      h == OrDefault(section.height, DefaultHeight)
  IN  [properties EXCEPT
         !.area = Mul(b, h),
         !.centroidHeight = Div(h, Num(2)),
         !.maxDistanceFromCentroid = Div(h, Num(2)),
         !.thickness = b,
         !.firstMomentOfArea = Div(Mul(Mul(b, h), h), Num(6))]

\* case 'rectangular'
rectangularCase(section, properties) ==
  LET b == OrDefault(section.width, DefaultWidth)
      h == OrDefault(section.height, DefaultHeight)
  IN  [properties EXCEPT
         !.area = Mul(b, h),
         !.centroidHeight = Div(h, Num(2)),
         !.maxDistanceFromCentroid = Div(h, Num(2)),
         !.thickness = b,
         !.firstMomentOfArea = Div(Mul(Mul(b, h), h), Num(8))]

\* case 'circular'
circularCase(section, properties) ==
  LET d == OrDefault(section.diameter, DefaultDiameter)
      r == Div(d, Num(2))
  IN  [properties EXCEPT
         !.area = Mul(Mul(MathPI, r), r),
         !.centroidHeight = r,
         !.maxDistanceFromCentroid = r,
         !.thickness = d,
         !.firstMomentOfArea = Div(Mul(Mul(Mul(Num(2), r), r), r), Num(3))]

\* the i-beam case with the lever arm of Q reversed: tf/2 - H/2
iBeamCaseReversedArm(section, properties) ==
  LET bf == OrDefault(section.flangeWidth, IBeamDefaultFlangeWidth)
      tf == OrDefault(section.flangeThickness, IBeamDefaultFlangeThickness)
      hw == OrDefault(section.webHeight, IBeamDefaultWebHeight)
      tw == OrDefault(section.webThickness, IBeamDefaultWebThickness)
      totalHeight == Add(hw, Mul(Num(2), tf))
  IN  [properties EXCEPT
         !.area = Add(Mul(Mul(Num(2), bf), tf), Mul(tw, hw)),
         !.centroidHeight = Div(totalHeight, Num(2)),
         !.maxDistanceFromCentroid = Div(totalHeight, Num(2)),
         !.thickness = tw,
         !.firstMomentOfArea =
            Mul(Mul(bf, tf), Sub(Div(tf, Num(2)), Div(totalHeight, Num(2))))]

\* case 'i-beam'
iBeamCase(section, properties) ==
  LET bf == OrDefault(section.flangeWidth, IBeamDefaultFlangeWidth)
      tf == OrDefault(section.flangeThickness, IBeamDefaultFlangeThickness)
      hw == OrDefault(section.webHeight, IBeamDefaultWebHeight)
      tw == OrDefault(section.webThickness, IBeamDefaultWebThickness)
      totalHeight == Add(hw, Mul(Num(2), tf))
  IN  [properties EXCEPT
         !.area = Add(Mul(Mul(Num(2), bf), tf), Mul(tw, hw)),
         !.centroidHeight = Div(totalHeight, Num(2)),
         !.maxDistanceFromCentroid = Div(totalHeight, Num(2)),
         !.thickness = tw,
         !.firstMomentOfArea =
            Mul(Mul(bf, tf), Sub(Div(totalHeight, Num(2)), Div(tf, Num(2))))]

\* the t-beam case with the flange centroid at H + tf/2
tBeamCaseFlangeAbove(section, properties) ==
  LET bfT == OrDefault(section.flangeWidth, TBeamDefaultFlangeWidth)
      tfT == OrDefault(section.flangeThickness, TBeamDefaultFlangeThickness)
      hwT == OrDefault(section.webHeight, TBeamDefaultWebHeight)
      twT == OrDefault(section.webThickness, TBeamDefaultWebThickness)
      totalHeightT == Add(hwT, tfT)
      A1 == Mul(bfT, tfT)
      A2 == Mul(twT, hwT)
      y1 == Add(totalHeightT, Div(tfT, Num(2)))
      y2 == Div(hwT, Num(2))
      yBar == Div(Add(Mul(A1, y1), Mul(A2, y2)), Add(A1, A2))
  IN  [properties EXCEPT
         !.area = Add(A1, A2),
         !.centroidHeight = yBar,
         !.maxDistanceFromCentroid = MathMax(yBar, Sub(totalHeightT, yBar)),
         !.thickness = twT,
         !.firstMomentOfArea = Mul(A1, MathAbs(Sub(y1, yBar)))]

\* case 't-beam'
tBeamCase(section, properties) ==
  LET bfT == OrDefault(section.flangeWidth, TBeamDefaultFlangeWidth)
      tfT == OrDefault(section.flangeThickness, TBeamDefaultFlangeThickness)
      hwT == OrDefault(section.webHeight, TBeamDefaultWebHeight)
      twT == OrDefault(section.webThickness, TBeamDefaultWebThickness)
      totalHeightT == Add(hwT, tfT)
      A1 == Mul(bfT, tfT)
      A2 == Mul(twT, hwT)
      y1 == Sub(totalHeightT, Div(tfT, Num(2)))
      y2 == Div(hwT, Num(2))
      yBar == Div(Add(Mul(A1, y1), Mul(A2, y2)), Add(A1, A2))
  IN  [properties EXCEPT
         !.area = Add(A1, A2),
         !.centroidHeight = yBar,
         !.maxDistanceFromCentroid = MathMax(yBar, Sub(totalHeightT, yBar)),
         !.thickness = twT,
         !.firstMomentOfArea = Mul(A1, MathAbs(Sub(y1, yBar)))]

\* a default branch that takes area and thickness from width and height
defaultCaseReadingFields(section, properties) ==
  [properties EXCEPT
     !.area = Mul(OrDefault(section.width, DefaultWidth),
                  OrDefault(section.height, DefaultHeight)),
     !.centroidHeight = <<1, 4>>,
     !.maxDistanceFromCentroid = <<1, 4>>,
     !.thickness = OrDefault(section.width, DefaultWidth),
     !.firstMomentOfArea = <<1, 100>>]

\* default:
defaultCase(section, properties) ==
  [properties EXCEPT
     !.area = <<3, 20>>,
     !.centroidHeight = <<1, 4>>,
     !.maxDistanceFromCentroid = <<1, 4>>,
     !.thickness = <<3, 10>>,
     !.firstMomentOfArea = <<1, 100>>]

\* switch (section.type) { ... } return properties;
calculateSectionProperties(bd) ==
  LET section == sectionOf(bd)
      properties == initialProperties(bd)
  IN  CASE section.type = "rectangular" -> rectangularCase(section, properties)
        [] section.type = "circular" -> circularCase(section, properties)
        [] section.type = "i-beam" -> iBeamCase(section, properties)
        [] section.type = "t-beam" -> tBeamCase(section, properties)
        [] OTHER -> defaultCase(section, properties)

----------------------------------------------------------------------------
(* calculateStresses, calculateStressAtPosition *)

\* the bending stress without Math.abs
maxBendingStressSigned(moment, props) ==
  Div(Mul(moment, props.maxDistanceFromCentroid), props.momentOfInertia)

\* Math.abs(moment * sectionProps.maxDistanceFromCentroid / sectionProps.momentOfInertia)
maxBendingStress(moment, props) ==
  MathAbs(Div(Mul(moment, props.maxDistanceFromCentroid), props.momentOfInertia))

\* Math.abs(shearForce * sectionProps.firstMomentOfArea /
\*          (sectionProps.momentOfInertia * sectionProps.thickness))
maxShearStress(shearForce, props) ==
  MathAbs(Div(Mul(shearForce, props.firstMomentOfArea),
              Mul(props.momentOfInertia, props.thickness)))

\* the for loop of calculateStresses: one push per index of results.shearForce.x
calculateStresses(bd, res) ==
  IF Len(res.shearForce.x) = 0 THEN [bendingStress |-> <<>>, shearStress |-> <<>>]
  ELSE LET props == calculateSectionProperties(bd)
       IN  [bendingStress |->
              [i \in 1..Len(res.shearForce.x) |->
                 maxBendingStress(res.bendingMoment.y[i], props)],
            shearStress |->
              [i \in 1..Len(res.shearForce.x) |->
                 maxShearStress(res.shearForce.y[i], props)]]

\* findIndex with x > position in place of x >= position
findIndexStrict(xs, position) ==
  IF \E i \in 1..Len(xs) : Lt(position, xs[i])
  THEN (CHOOSE i \in 1..Len(xs) :
          /\ Lt(position, xs[i])
          /\ \A j \in 1..(i - 1) : ~Lt(position, xs[j])) - 1
  ELSE -1

\* the floor policy: the last sample with x <= position, -1 when none
findIndexFloor(xs, position) ==
  IF \E i \in 1..Len(xs) : Ge(position, xs[i])
  THEN (CHOOSE i \in 1..Len(xs) :
          /\ Ge(position, xs[i])
          /\ \A j \in (i + 1)..Len(xs) : ~Ge(position, xs[j])) - 1
  ELSE -1

\* results.shearForce.x.findIndex(x => x >= position): 0-based, -1 when none
findIndex(xs, position) ==
  IF \E i \in 1..Len(xs) : Ge(xs[i], position)
  THEN (CHOOSE i \in 1..Len(xs) :
          /\ Ge(xs[i], position)
          /\ \A j \in 1..(i - 1) : ~Ge(xs[j], position)) - 1
  ELSE -1

\* a miss falls back to the first sample: index === -1 ? 0 : index
actualIndexOfFirstOnMiss(res, position) ==
  LET index == findIndex(res.shearForce.x, position)
  IN  IF index = -1 THEN 0 ELSE index

\* const actualIndex = index === -1 ? results.shearForce.x.length - 1 : index;
actualIndexOf(res, position) ==
  LET index == findIndex(res.shearForce.x, position)
  IN  IF index = -1 THEN Len(res.shearForce.x) - 1 ELSE index

\* the record with the signed moment and shear force of the sample
stressAtIndexSigned(bd, res, actualIndex) ==
  LET props == calculateSectionProperties(bd)
      moment == res.bendingMoment.y[actualIndex + 1]
      shearForce == res.shearForce.y[actualIndex + 1]
  IN  [bendingStress |-> maxBendingStress(moment, props),
       shearStress |-> maxShearStress(shearForce, props),
       moment |-> moment,
       shearForce |-> shearForce]

\* lines 142-154: the record returned for the sample at actualIndex (0-based)
stressAtIndex(bd, res, actualIndex) ==
  LET props == calculateSectionProperties(bd)
      moment == res.bendingMoment.y[actualIndex + 1]
      shearForce == res.shearForce.y[actualIndex + 1]
  IN  [bendingStress |-> maxBendingStress(moment, props),
       shearStress |-> maxShearStress(shearForce, props),
       moment |-> MathAbs(moment),
       shearForce |-> MathAbs(shearForce)]

\* calculateStressAtPosition without its early return: y[-1] is undefined
calculateStressAtPositionNoGuard(bd, res, position) ==
  IF Len(res.shearForce.x) = 0
  THEN [bendingStress |-> NaN, shearStress |-> NaN, moment |-> NaN, shearForce |-> NaN]
  ELSE stressAtIndex(bd, res, actualIndexOf(res, position))

\* the local actualIndex of a call: none (<<>>) when the early return is taken
selectedIndex(res, position) ==
  IF Len(res.shearForce.x) = 0 THEN <<>> ELSE <<actualIndexOf(res, position)>>

calculateStressAtPosition(bd, res, position) ==
  IF Len(res.shearForce.x) = 0
  THEN [bendingStress |-> Zero, shearStress |-> Zero, moment |-> Zero, shearForce |-> Zero]
  ELSE stressAtIndex(bd, res, actualIndexOf(res, position))

----------------------------------------------------------------------------
(* InputPanel: the open sections *)

\* const sections = [{ id: 'length', ... }, ..., { id: 'stress', ... }]: the ids
sections == <<"length", "supports", "loads", "moments", "section", "material", "stress">>

\* prev.includes(sectionId)
includes(prev, sectionId) == \E i \in 1..Len(prev) : prev[i] = sectionId

\* a toggle that appends without looking: [...prev, sectionId]
toggleSectionAlwaysAppend(prev, sectionId) == Append(prev, sectionId)

\* the updater of toggleSection: prev.filter(id => id !== sectionId) when
\* sectionId is open, [...prev, sectionId] when it is not
toggleSection(prev, sectionId) ==
  IF includes(prev, sectionId)
  THEN SelectSeq(prev, LAMBDA id : id # sectionId)
  ELSE Append(prev, sectionId)

----------------------------------------------------------------------------
(* generateCrossSectionStressDistribution *)

\* const points = 50;
points == 50

\* y over half the span: (i / points) * maxDistanceFromCentroid - maxDistanceFromCentroid
distributionYHalfSpan(i, props) ==
  Sub(Mul(Norm(i, points), props.maxDistanceFromCentroid), props.maxDistanceFromCentroid)

\* const y = (i / points) * (2 * sectionProps.maxDistanceFromCentroid)
\*           - sectionProps.maxDistanceFromCentroid;
distributionY(i, props) ==
  Sub(Mul(Norm(i, points), Mul(Num(2), props.maxDistanceFromCentroid)),
      props.maxDistanceFromCentroid)

\* const bendingStress = stressAtPos.moment * Math.abs(y) / sectionProps.momentOfInertia;
distributionBendingStress(atPos, y, props) ==
  Div(Mul(atPos.moment, MathAbs(y)), props.momentOfInertia)

\* lines 171-178: the shear stress before it is clamped
\* the linear approximation for every section type, the rectangular one included
distributionShearStressLinearOnly(bd, atPos, y, props) ==
  Div(Mul(atPos.shearForce,
          Sub(Num(1), Div(MathAbs(y), props.maxDistanceFromCentroid))),
      props.area)

distributionShearStress(bd, atPos, y, props) ==
  IF sectionOf(bd).type = "rectangular"
  THEN LET h == Mul(props.maxDistanceFromCentroid, Num(2))
           ratio == Div(y, Div(h, Num(2)))
       IN  Div(Mul(Mul(atPos.shearForce, Sub(Num(1), Mul(ratio, ratio))), <<3, 2>>),
               props.area)
  ELSE Div(Mul(atPos.shearForce,
               Sub(Num(1), Div(MathAbs(y), props.maxDistanceFromCentroid))),
           props.area)

\* distribution.push({ y, bendingStress, shearStress: Math.max(0, shearStress) })
\* the point without the Math.max(0, shearStress) clamp
distributionPointUnclamped(bd, atPos, i, props) ==
  LET y == distributionY(i, props)
  IN  [y |-> y,
       bendingStress |-> distributionBendingStress(atPos, y, props),
       shearStress |-> distributionShearStress(bd, atPos, y, props)]

distributionPoint(bd, atPos, i, props) ==
  LET y == distributionY(i, props)
  IN  [y |-> y,
       bendingStress |-> distributionBendingStress(atPos, y, props),
       shearStress |-> MathMax(Zero, distributionShearStress(bd, atPos, y, props))]

\* the loop runs i = 0 .. points; point i is element i + 1 of the sequence
generateCrossSectionStressDistribution(bd, res, position) ==
  LET atPos == calculateStressAtPosition(bd, res, position)
      props == calculateSectionProperties(bd)
  IN  [k \in 1..(points + 1) |-> distributionPoint(bd, atPos, k - 1, props)]

----------------------------------------------------------------------------
(* Inputs *)

MaxDim == 2
MaxLen == 3
MaxPos == 4

\* a dimensional field: missing, NaN (an unparsed entry), or k/5 for k = -1 .. MaxDim
Dims == {Undefined, NaN} \cup {Norm(k, 5) : k \in -1..MaxDim}

Rectangular(w, h) == [EmptyObject EXCEPT !.type = "rectangular", !.width = w, !.height = h]
Circular(d) == [EmptyObject EXCEPT !.type = "circular", !.diameter = d]
Beam(t, bf, tf, hw, tw) ==
  [EmptyObject EXCEPT !.type = t, !.flangeWidth = bf, !.flangeThickness = tf,
                      !.webHeight = hw, !.webThickness = tw]
Untyped(t, w, h) == [EmptyObject EXCEPT !.type = t, !.width = w, !.height = h]

\* beamData.section: absent (<<>>) or <<descriptor>>
AllSections ==
  {<<>>}
    \cup {<<Rectangular(w, h)>> : w \in Dims, h \in Dims}
    \cup {<<Circular(d)>> : d \in Dims}
    \cup {<<Beam(t, bf, tf, hw, tw)>> :
            t \in {"i-beam", "t-beam"}, bf \in Dims, tf \in Dims, hw \in Dims, tw \in Dims}
    \cup {<<Untyped(t, w, h)>> : t \in {NoType, "l-beam"}, w \in Dims, h \in Dims}

\* the sections the stress functions are run on
EngineSections ==
  {<<>>, <<Circular(Undefined)>>,
   <<Beam("i-beam", Undefined, Undefined, Undefined, Undefined)>>,
   <<Beam("t-beam", Undefined, Undefined, Undefined, Undefined)>>}
    \cup {<<Rectangular(<<1, 5>>, h)>> : h \in Dims}

\* the sections the transverse distribution is run on
DistSections ==
  EngineSections
    \cup {<<Circular(<<-1, 5>>)>>, <<Untyped("l-beam", <<1, 5>>, <<2, 5>>)>>,
          <<Beam("i-beam", <<-1, 5>>, Undefined, Undefined, Undefined)>>}

\* the sections repeated calls are run on
CallSections == {<<>>, <<Rectangular(<<1, 5>>, <<2, 5>>)>>, <<Circular(<<-1, 5>>)>>}

\* beamData.materialProperties.I
Inertias == {<<-2, 1875>>, Zero, <<2, 1875>>}

BeamDataOf(sec, inertia) == [section |-> sec, materialProperties |-> [I |-> inertia]]

\* (shear, moment) of one sample
Loads == {<<Num(1000), Num(500)>>, <<Num(-2000), Num(-300)>>, <<Zero, Zero>>}

\* x starts at 0 and grows by 0 or 1 from one sample to the next
RECURSIVE XsOfLen(_)
XsOfLen(n) ==
  IF n = 0 THEN {<<>>}
  ELSE IF n = 1 THEN {<<0>>}
  ELSE {Append(xs, xs[n - 1] + step) : xs \in XsOfLen(n - 1), step \in {0, 1}}

ResultsOf(xs, loads) ==
  [shearForce |-> [x |-> [i \in 1..Len(xs) |-> Num(xs[i])],
                   y |-> [i \in 1..Len(xs) |-> loads[i][1]]],
   bendingMoment |-> [y |-> [i \in 1..Len(xs) |-> loads[i][2]]]]

Diagrams ==
  UNION {{ResultsOf(xs, loads) : xs \in XsOfLen(n), loads \in [1..n -> Loads]} : n \in 0..MaxLen}

EmptyResults == ResultsOf(<<>>, <<>>)

\* the loads and their doubles
ScaledLoads == Loads \cup {<<Mul(Num(2), l[1]), Mul(Num(2), l[2])>> : l \in Loads}

\* samples at x = 0, 1, .., n - 1 with loads from ScaledLoads
ProfileDiagrams ==
  UNION {{ResultsOf([i \in 1..n |-> i - 1], loads) : loads \in [1..n -> ScaledLoads]} :
           n \in 0..MaxLen}

\* no sample, one sample at x = 0, or a sample of shear 1000 and moment 500 at
\* x = 0 followed by one at x = 1
ShortDiagrams ==
  {EmptyResults}
    \cup {ResultsOf(<<0>>, <<l>>) : l \in Loads}
    \cup {ResultsOf(<<0, 1>>, <<<<Num(1000), Num(500)>>, l>>) : l \in Loads}

\* samples at x = 0, 1, 2, 3
FourSamples ==
  ResultsOf(<<0, 1, 2, 3>>,
            <<<<Num(1000), Num(500)>>, <<Num(-2000), Num(-300)>>,
              <<Zero, Zero>>, <<Num(1000), Num(500)>>>>)

\* analysis positions: k/2 for k = -1 .. MaxPos, and one far beyond every x
Positions == {Norm(k, 2) : k \in -1..MaxPos} \cup {Num(10)}

\* the diagrams repeated calls are run on: none, and two samples
CallDiagrams ==
  {EmptyResults,
   ResultsOf(<<0, 1>>, <<<<Num(1000), Num(500)>>, <<Num(-2000), Num(-300)>>>>)}

\* the positions repeated calls are made at
CallPositions == {Zero, Norm(MaxPos, 4)}

----------------------------------------------------------------------------
(* Specifications *)

\* section properties: every descriptor, no force diagram
InitProps ==
  /\ beamData \in {BeamDataOf(sec, inertia) : sec \in AllSections, inertia \in Inertias}
  /\ results = EmptyResults
  /\ sectionProps = <<>>
  /\ stresses = <<>>
  /\ stressAtPos = <<>>
  /\ distribution = <<>>
  /\ expandedSections = <<"length">>

\* stress functions: every force diagram
Init ==
  /\ beamData \in {BeamDataOf(sec, inertia) : sec \in EngineSections, inertia \in Inertias}
  /\ results \in Diagrams \cup {FourSamples}
  /\ sectionProps = <<>>
  /\ stresses = <<>>
  /\ stressAtPos = <<>>
  /\ distribution = <<>>
  /\ expandedSections = <<"length">>

\* a behaviour is one call on the inputs Init chose: the functions are pure, and
\* nothing they return is read by a later call
NotCalled ==
  sectionProps = <<>> /\ stresses = <<>> /\ stressAtPos = <<>> /\ distribution = <<>>

CalculateSectionProperties ==
  /\ NotCalled
  /\ sectionProps' = <<calculateSectionProperties(beamData)>>
  /\ UNCHANGED <<beamData, results, stresses, stressAtPos, distribution, expandedSections>>

CalculateStresses ==
  /\ NotCalled
  /\ stresses' = <<calculateStresses(beamData, results)>>
  /\ UNCHANGED <<beamData, results, sectionProps, stressAtPos, distribution, expandedSections>>

CalculateStressAtPosition(position) ==
  /\ NotCalled
  /\ stressAtPos' = <<[position |-> position,
                       actualIndex |-> selectedIndex(results, position),
                       result |-> calculateStressAtPosition(beamData, results, position)]>>
  /\ UNCHANGED <<beamData, results, sectionProps, stresses, distribution, expandedSections>>

GenerateCrossSectionStressDistribution(position) ==
  /\ NotCalled
  /\ distribution' =
       <<[position |-> position,
          points |-> generateCrossSectionStressDistribution(beamData, results, position)]>>
  /\ UNCHANGED <<beamData, results, sectionProps, stresses, stressAtPos, expandedSections>>

NextProps == CalculateSectionProperties

\* the point query and the transverse distribution, over short diagrams
InitDist ==
  /\ beamData \in {BeamDataOf(sec, inertia) : sec \in DistSections, inertia \in Inertias}
  /\ results \in ShortDiagrams
  /\ sectionProps = <<>>
  /\ stresses = <<>>
  /\ stressAtPos = <<>>
  /\ distribution = <<>>
  /\ expandedSections = <<"length">>

NextDist ==
  \/ \E position \in Positions : CalculateStressAtPosition(position)
  \/ \E position \in Positions : GenerateCrossSectionStressDistribution(position)

\* the longitudinal profile alone, over loads and their doubles
InitProfile ==
  /\ beamData \in {BeamDataOf(sec, inertia) : sec \in EngineSections, inertia \in Inertias}
  /\ results \in ProfileDiagrams
  /\ sectionProps = <<>>
  /\ stresses = <<>>
  /\ stressAtPos = <<>>
  /\ distribution = <<>>
  /\ expandedSections = <<"length">>

NextProfile == CalculateStresses

\* any sequence of calls on the same inputs: each render calls the functions
\* again (lines 190-196), and each call overwrites what the last one returned
InitCalls ==
  /\ beamData \in {BeamDataOf(sec, inertia) : sec \in CallSections, inertia \in Inertias}
  /\ results \in CallDiagrams
  /\ sectionProps = <<>>
  /\ stresses = <<>>
  /\ stressAtPos = <<>>
  /\ distribution = <<>>
  /\ expandedSections = <<"length">>

\* const section = (beamData.section = beamData.section || {}): the empty
\* descriptor is stored back into the input
CallCalculateSectionPropertiesStoringSection ==
  /\ sectionProps' = <<calculateSectionProperties(beamData)>>
  /\ beamData' = [beamData EXCEPT !.section = <<sectionOf(beamData)>>]
  /\ UNCHANGED <<results, stresses, stressAtPos, distribution, expandedSections>>

CallCalculateSectionProperties ==
  /\ sectionProps' = <<calculateSectionProperties(beamData)>>
  /\ UNCHANGED <<beamData, results, stresses, stressAtPos, distribution, expandedSections>>

CallCalculateStresses ==
  /\ stresses' = <<calculateStresses(beamData, results)>>
  /\ UNCHANGED <<beamData, results, sectionProps, stressAtPos, distribution, expandedSections>>

CallCalculateStressAtPosition(position) ==
  /\ stressAtPos' = <<[position |-> position,
                       actualIndex |-> selectedIndex(results, position),
                       result |-> calculateStressAtPosition(beamData, results, position)]>>
  /\ UNCHANGED <<beamData, results, sectionProps, stresses, distribution, expandedSections>>

CallGenerateCrossSectionStressDistribution(position) ==
  /\ distribution' =
       <<[position |-> position,
          points |-> generateCrossSectionStressDistribution(beamData, results, position)]>>
  /\ UNCHANGED <<beamData, results, sectionProps, stresses, stressAtPos, expandedSections>>

NextCalls ==
  \/ CallCalculateSectionProperties
  \/ CallCalculateStresses
  \/ \E position \in CallPositions : CallCalculateStressAtPosition(position)
  \/ \E position \in CallPositions : CallGenerateCrossSectionStressDistribution(position)

Next ==
  \/ CalculateStresses
  \/ \E position \in Positions : CalculateStressAtPosition(position)

SpecProps == InitProps /\ [][NextProps]_vars

Spec == Init /\ [][Next]_vars

SpecProfile == InitProfile /\ [][NextProfile]_vars

SpecDist == InitDist /\ [][NextDist]_vars

SpecCalls == InitCalls /\ [][NextCalls]_vars

\* the input panel: useState(['length']), and the engine not called
InitPanel ==
  /\ beamData = BeamDataOf(<<>>, Zero)
  /\ results = EmptyResults
  /\ sectionProps = <<>>
  /\ stresses = <<>>
  /\ stressAtPos = <<>>
  /\ distribution = <<>>
  /\ expandedSections = <<"length">>

\* onClick={() => toggleSection(section.id)}
ToggleSection(sectionId) ==
  /\ expandedSections' = toggleSection(expandedSections, sectionId)
  /\ UNCHANGED <<beamData, results, sectionProps, stresses, stressAtPos, distribution>>

\* Expand All: setExpandedSections(sections.map(s => s.id))
ExpandAll ==
  /\ expandedSections' = sections
  /\ UNCHANGED <<beamData, results, sectionProps, stresses, stressAtPos, distribution>>

\* Collapse All: setExpandedSections([])
CollapseAll ==
  /\ expandedSections' = <<>>
  /\ UNCHANGED <<beamData, results, sectionProps, stresses, stressAtPos, distribution>>

NextPanel ==
  \/ \E i \in 1..Len(sections) : ToggleSection(sections[i])
  \/ ExpandAll
  \/ CollapseAll

SpecPanel == InitPanel /\ [][NextPanel]_vars

----------------------------------------------------------------------------
(* Properties of the point query and of the longitudinal profile (Spec) *)

xsOf(res) == res.shearForce.x
Samples(res) == 1..Len(xsOf(res))
Queried == stressAtPos # <<>>
Profiled == stresses # <<>>
InertiaIn == beamData.materialProperties.I

\* 1-based index of the first sample with x >= position, the last sample if none
CeilingSample(res, position) ==
  LET atOrAfter == {i \in Samples(res) : Ge(xsOf(res)[i], position)}
  IN  IF atOrAfter = {} THEN Len(xsOf(res))
      ELSE CHOOSE i \in atOrAfter : \A j \in atOrAfter : i <= j

\* the record the point query returns when it reads sample k
ReadsSample(result, res, k) ==
  LET props == calculateSectionProperties(beamData)
  IN  /\ result.moment = MathAbs(res.bendingMoment.y[k])
      /\ result.shearForce = MathAbs(res.shearForce.y[k])
      /\ result.bendingStress =
           MathAbs(Div(Mul(res.bendingMoment.y[k], props.maxDistanceFromCentroid),
                       props.momentOfInertia))
      /\ result.shearStress =
           MathAbs(Div(Mul(res.shearForce.y[k], props.firstMomentOfArea),
                       Mul(props.momentOfInertia, props.thickness)))

AllFinite(values) == \A i \in 1..Len(values) : IsFinite(values[i])

\* C2: with momentOfInertia = 0 neither the profile nor the point query hands
\* a NaN or Infinity stress to the caller.
C2_NoNaNOrInfinity ==
  (InertiaIn = Zero) =>
     /\ Profiled => /\ AllFinite(stresses[1].bendingStress)
                    /\ AllFinite(stresses[1].shearStress)
     /\ Queried => /\ IsFinite(stressAtPos[1].result.bendingStress)
                   /\ IsFinite(stressAtPos[1].result.shearStress)

ZeroResult ==
  [bendingStress |-> Zero, shearStress |-> Zero, moment |-> Zero, shearForce |-> Zero]

\* C3: for an empty force diagram the profile has no bending and no shear
\* entries and the point query returns 0 for all four fields, whatever the
\* section, the moment of inertia and the position.
C3_EmptyDiagram ==
  (Len(xsOf(results)) = 0) =>
     /\ Profiled => stresses[1] = [bendingStress |-> <<>>, shearStress |-> <<>>]
     /\ Queried => stressAtPos[1].result = ZeroResult

\* the point query has run on an empty diagram with a zero moment of inertia
C3_Witness ==
  /\ Queried
  /\ Len(xsOf(results)) = 0
  /\ InertiaIn = Zero
  /\ stressAtPos[1].position = Num(10)

\* |v|
Magnitude(v) == IF Lt(v, Zero) THEN Neg(v) ELSE v

OnePairPerSample ==
  /\ Len(stresses[1].bendingStress) = Len(xsOf(results))
  /\ Len(stresses[1].shearStress) = Len(xsOf(results))

\* the section of the end-to-end scenario: 0.2 x 0.4, I = 0.2 * 0.4^3 / 12
ScenarioBeam == BeamDataOf(<<Rectangular(<<1, 5>>, <<2, 5>>)>>, <<2, 1875>>)

ScenarioValues ==
  \A i \in Samples(results) :
     (results.shearForce.y[i] = Num(1000) /\ results.bendingMoment.y[i] = Num(500)) =>
        /\ stresses[1].bendingStress[i] = Num(93750)
        /\ stresses[1].shearStress[i] = Num(18750)

\* C4 as stated: one stress pair per sample, in order, with
\* bendingStress[i] = |moment[i]| * maxDistanceFromCentroid / momentOfInertia and
\* shearStress[i] = |shear[i]| * firstMomentOfArea / (momentOfInertia * thickness).
C4_AsStated ==
  Profiled =>
     LET props == calculateSectionProperties(beamData)
     IN  /\ OnePairPerSample
         /\ \A i \in Samples(results) :
              /\ stresses[1].bendingStress[i] =
                   Div(Mul(Magnitude(results.bendingMoment.y[i]),
                           props.maxDistanceFromCentroid),
                       props.momentOfInertia)
              /\ stresses[1].shearStress[i] =
                   Div(Mul(Magnitude(results.shearForce.y[i]), props.firstMomentOfArea),
                       Mul(props.momentOfInertia, props.thickness))

\* C4 (amended): one stress pair per sample, in order, each the magnitude of
\* the whole quotient: bendingStress[i] = |moment[i]| * |maxDistanceFromCentroid|
\* / |momentOfInertia| and shearStress[i] = |shear[i]| * |firstMomentOfArea| /
\* (|momentOfInertia| * |thickness|); the 0.2 x 0.4 rectangle with
\* I = 0.2 * 0.4^3 / 12, shear 1000 and moment 500 gives 93,750 and 18,750.
C4_MagnitudeOfQuotient ==
  Profiled =>
     LET props == calculateSectionProperties(beamData)
     IN  /\ OnePairPerSample
         /\ \A i \in Samples(results) :
              /\ stresses[1].bendingStress[i] =
                   Div(Mul(Magnitude(results.bendingMoment.y[i]),
                           Magnitude(props.maxDistanceFromCentroid)),
                       Magnitude(props.momentOfInertia))
              /\ stresses[1].shearStress[i] =
                   Div(Mul(Magnitude(results.shearForce.y[i]),
                           Magnitude(props.firstMomentOfArea)),
                       Mul(Magnitude(props.momentOfInertia), Magnitude(props.thickness)))
         /\ (beamData = ScenarioBeam) => ScenarioValues

\* the profile of the scenario's section over three samples, the first being
\* shear 1000, moment 500 and the second of the opposite sign
C4_Witness ==
  /\ Profiled
  /\ beamData = ScenarioBeam
  /\ Len(xsOf(results)) = 3
  /\ results.bendingMoment.y[1] = Num(500)
  /\ results.bendingMoment.y[2] = Num(-300)
  /\ stresses[1].bendingStress[1] = Num(93750)
  /\ stresses[1].shearStress[1] = Num(18750)

AllNonNegative(values) == \A i \in 1..Len(values) : Ge(values[i], Zero)

\* C5: every bendingStress and shearStress of the profile and of the point
\* query is a non-negative magnitude, for every sign of moment and shear,
\* every section and every moment of inertia.
C5_NonNegative ==
  /\ Profiled => /\ AllNonNegative(stresses[1].bendingStress)
                 /\ AllNonNegative(stresses[1].shearStress)
  /\ Queried => /\ Ge(stressAtPos[1].result.bendingStress, Zero)
                /\ Ge(stressAtPos[1].result.shearStress, Zero)

----------------------------------------------------------------------------
(* Properties of calculateSectionProperties (SpecProps) *)

Computed == sectionProps # <<>>
SectionIn == sectionOf(beamData)

\* the defaults of the table of per-type formulas
TableDefault(type, field) ==
  CASE type = "rectangular" /\ field = "width" -> <<3, 10>>
    [] type = "rectangular" /\ field = "height" -> <<5, 10>>
    [] type = "circular" /\ field = "diameter" -> <<4, 10>>
    [] type = "i-beam" /\ field = "flangeWidth" -> <<2, 10>>
    [] type = "i-beam" /\ field = "flangeThickness" -> <<2, 100>>
    [] type = "i-beam" /\ field = "webHeight" -> <<4, 10>>
    [] type = "i-beam" /\ field = "webThickness" -> <<1, 100>>
    [] type = "t-beam" /\ field = "flangeWidth" -> <<3, 10>>
    [] type = "t-beam" /\ field = "flangeThickness" -> <<5, 100>>
    [] type = "t-beam" /\ field = "webHeight" -> <<4, 10>>
    [] type = "t-beam" /\ field = "webThickness" -> <<2, 100>>

FieldsOfType(type) ==
  CASE type = "rectangular" -> {"width", "height"}
    [] type = "circular" -> {"diameter"}
    [] type \in {"i-beam", "t-beam"} ->
         {"flangeWidth", "flangeThickness", "webHeight", "webThickness"}
    [] OTHER -> {}

DimensionalFields ==
  {"width", "height", "diameter", "flangeWidth", "flangeThickness", "webHeight",
   "webThickness"}

MissingOrZero(v) == v = Undefined \/ v = Zero \/ v = NaN
MissingOrNonPositive(v) == v = Undefined \/ ~Lt(Zero, v)

\* the descriptor with the table default in place of every field of its type
\* that is missing, zero or NaN, and when negativeToo also of every negative one
WithDefaults(section, negativeToo) ==
  [f \in DOMAIN section |->
     IF /\ f \in FieldsOfType(section.type)
        /\ IF negativeToo THEN MissingOrNonPositive(section[f])
                          ELSE MissingOrZero(section[f])
     THEN LET d == TableDefault(section.type, f) IN Norm(d[1], d[2])
     ELSE section[f]]

\* the dimensions a result shows as they were used
ShowsDimensions(props, section) ==
  /\ section.type = "rectangular" =>
        /\ props.thickness = section.width
        /\ Mul(Num(2), props.centroidHeight) = section.height
  /\ section.type = "circular" => props.thickness = section.diameter
  /\ section.type \in {"i-beam", "t-beam"} => props.thickness = section.webThickness

PropertiesAsIfDefaulted(negativeToo) ==
  (Computed /\ SectionIn.type \in SectionTypes) =>
     LET used == WithDefaults(SectionIn, negativeToo)
     IN  /\ sectionProps[1] =
              calculateSectionProperties(BeamDataOf(<<used>>, InertiaIn))
         /\ ShowsDimensions(sectionProps[1], used)

\* C6 as stated: every dimensional field of a rectangular, circular, i-beam or
\* t-beam descriptor that is missing or non-positive (zero or negative) is
\* replaced by the default of its type before any property is computed.
C6_AsStated == PropertiesAsIfDefaulted(TRUE)

\* C6 (amended): every dimensional field that is missing, zero or NaN is
\* replaced by the default of its type before any property is computed; a
\* negative field is used as given.
C6_MissingOrZeroDefaulted == PropertiesAsIfDefaulted(FALSE)

\* a rectangle with width 0 and a negative height: the width is defaulted to
\* 0.3, the height is used as it is
C6_Witness ==
  /\ Computed
  /\ SectionIn.type = "rectangular"
  /\ SectionIn.width = Zero
  /\ SectionIn.height = <<-1, 5>>
  /\ sectionProps[1].thickness = <<3, 10>>
  /\ sectionProps[1].centroidHeight = <<-1, 10>>

PropertyFields ==
  {"area", "momentOfInertia", "centroidHeight", "maxDistanceFromCentroid",
   "thickness", "firstMomentOfArea"}

AllFieldsNonNegative(props) == \A f \in PropertyFields : Ge(props[f], Zero)

\* C7 as stated: every field of every result is >= 0, and
\* maxDistanceFromCentroid > 0 whenever the area is not degenerate.
C7_AsStated ==
  Computed =>
     /\ AllFieldsNonNegative(sectionProps[1])
     /\ Lt(Zero, sectionProps[1].area) =>
           Lt(Zero, sectionProps[1].maxDistanceFromCentroid)

NoNegativeInput ==
  /\ \A f \in DimensionalFields : SectionIn[f] = Undefined \/ Ge(SectionIn[f], Zero)
  /\ Ge(InertiaIn, Zero)

\* C7 (amended): when no dimensional field of the descriptor is negative and
\* the external moment of inertia is >= 0, every field of the result is >= 0
\* and maxDistanceFromCentroid > 0.
C7_NonNegativeForNonNegativeInput ==
  (Computed /\ NoNegativeInput) =>
     /\ AllFieldsNonNegative(sectionProps[1])
     /\ Lt(Zero, sectionProps[1].maxDistanceFromCentroid)

\* an i-beam with positive flange and web, the other fields defaulted
C7_Witness ==
  /\ Computed
  /\ NoNegativeInput
  /\ SectionIn.type = "i-beam"
  /\ SectionIn.flangeWidth = <<2, 5>>
  /\ SectionIn.flangeThickness = <<1, 5>>
  /\ SectionIn.webHeight = Zero
  /\ Lt(Zero, sectionProps[1].firstMomentOfArea)

\* C8: the momentOfInertia of the result is the external moment of inertia,
\* for every section type (none included) and every geometry.
C8_InertiaPassedThrough ==
  Computed => sectionProps[1].momentOfInertia = InertiaIn

\* a t-beam whose flange and web areas cancel, with a negative inertia
C8_Witness ==
  /\ Computed
  /\ SectionIn.type = "t-beam"
  /\ sectionProps[1].area = Zero
  /\ InertiaIn = <<-2, 1875>>
  /\ sectionProps[1].momentOfInertia = <<-2, 1875>>

PositiveField(v) == v # Undefined /\ Lt(Zero, v)

\* C9: a rectangular section with width b > 0 and height h > 0 has
\* area = b*h, firstMomentOfArea = b*h*h/8,
\* centroidHeight = maxDistanceFromCentroid = h/2 and thickness = b.
C9_Rectangular ==
  (/\ Computed
   /\ SectionIn.type = "rectangular"
   /\ PositiveField(SectionIn.width)
   /\ PositiveField(SectionIn.height)) =>
     LET b == SectionIn.width
         h == SectionIn.height
         props == sectionProps[1]
     IN  /\ props.area = Mul(b, h)
         /\ Mul(props.firstMomentOfArea, Num(8)) = Mul(b, Mul(h, h))
         /\ Mul(props.centroidHeight, Num(2)) = h
         /\ Mul(props.maxDistanceFromCentroid, Num(2)) = h
         /\ props.thickness = b

\* the 0.2 x 0.4 rectangle: area 0.08, Q = 0.004
C9_Witness ==
  /\ Computed
  /\ SectionIn.type = "rectangular"
  /\ SectionIn.width = <<1, 5>>
  /\ SectionIn.height = <<2, 5>>
  /\ sectionProps[1].area = <<2, 25>>
  /\ sectionProps[1].firstMomentOfArea = <<1, 250>>

AllPositiveTBeam ==
  /\ SectionIn.type = "t-beam"
  /\ \A f \in FieldsOfType("t-beam") : PositiveField(SectionIn[f])

\* C10: for a t-beam with positive flangeWidth, flangeThickness, webHeight and
\* webThickness, 0 < centroidHeight < webHeight + flangeThickness, and
\* maxDistanceFromCentroid = max(centroidHeight, H - centroidHeight) < H.
C10_TBeamCentroid ==
  (Computed /\ AllPositiveTBeam) =>
     LET H == Add(SectionIn.webHeight, SectionIn.flangeThickness)
         props == sectionProps[1]
     IN  /\ Lt(Zero, props.centroidHeight)
         /\ Lt(props.centroidHeight, H)
         /\ props.maxDistanceFromCentroid =
              MathMax(props.centroidHeight, Sub(H, props.centroidHeight))
         /\ Lt(props.maxDistanceFromCentroid, H)

\* a wide thick flange on a short web: the centroid lies in the flange, above
\* mid-height
C10_Witness ==
  /\ Computed
  /\ AllPositiveTBeam
  /\ SectionIn.flangeWidth = <<2, 5>>
  /\ SectionIn.flangeThickness = <<2, 5>>
  /\ SectionIn.webHeight = <<1, 5>>
  /\ SectionIn.webThickness = <<1, 5>>
  /\ Lt(SectionIn.webHeight, sectionProps[1].centroidHeight)

----------------------------------------------------------------------------
(* Properties of the longitudinal profile under scaled loads (SpecProfile) *)

----------------------------------------------------------------------------
(* Properties of the transverse distribution (SpecDist) *)

Distributed == distribution # <<>>
PropsIn == calculateSectionProperties(beamData)
MaxDistIn == PropsIn.maxDistanceFromCentroid
PointAt(k) == distribution[1].points[k]
PointIndices == 1..Len(distribution[1].points)

\* a <= b
Le(a, b) == Ge(b, a)

\* 51 points, the first at -maxDistanceFromCentroid, the last at
\* +maxDistanceFromCentroid, with equal steps of 2 * maxDistanceFromCentroid / 50
LinearInY ==
  /\ Len(distribution[1].points) = 51
  /\ PointAt(1).y = Neg(MaxDistIn)
  /\ PointAt(51).y = MaxDistIn
  /\ \A k \in 1..50 :
        Sub(PointAt(k + 1).y, PointAt(k).y) = Div(Mul(Num(2), MaxDistIn), Num(50))

PointQueryOfDistribution ==
  calculateStressAtPosition(beamData, results, distribution[1].position)

\* bending stress is 0 at the centroid (y = 0, the middle point) and equals the
\* point-query bending stress at both extreme fibres
CentroidZeroExtremesMatch ==
  /\ PointAt(26).y = Zero
  /\ PointAt(26).bendingStress = Zero
  /\ PointAt(1).bendingStress = PointQueryOfDistribution.bendingStress
  /\ PointAt(51).bendingStress = PointQueryOfDistribution.bendingStress

\* C13: in the transverse distribution, bendingStress at y = 0 is exactly 0 and
\* bendingStress at y = -maxDistanceFromCentroid and y = +maxDistanceFromCentroid
\* equals the point-query bendingStress at the same position.
C13_ZeroAtCentroidMaxAtExtremes ==
  Distributed => CentroidZeroExtremesMatch

\* the same for a positive moment of inertia only
C13_ForPositiveInertia ==
  (Distributed /\ Lt(Zero, InertiaIn)) => CentroidZeroExtremesMatch

IsRectangular == sectionOf(beamData).type = "rectangular"
ShearAt(k) == PointAt(k).shearStress
\* 1.5 * V / area, V the shear force magnitude of the point query
RectangularPeak ==
  Div(Mul(<<3, 2>>, PointQueryOfDistribution.shearForce), PropsIn.area)

\* symmetric in y, largest at y = 0, zero at both extreme fibres
SymmetricWithCentralMaximum ==
  /\ \A k \in PointIndices : ShearAt(k) = ShearAt(52 - k)
  /\ \A k \in PointIndices : Le(ShearAt(k), ShearAt(26))
  /\ ShearAt(1) = Zero
  /\ ShearAt(51) = Zero

\* C14 as stated: for rectangular sections the distribution's shearStress is
\* symmetric in y, has its maximum at y = 0 equal to 1.5 * V / area, and is 0 at
\* y = -maxDistanceFromCentroid and y = +maxDistanceFromCentroid.
C14_AsStated ==
  (Distributed /\ IsRectangular) =>
     SymmetricWithCentralMaximum /\ ShearAt(26) = RectangularPeak

\* C14 (amended): for rectangular sections the distribution's shearStress is
\* symmetric in y, largest at y = 0 and 0 at both extremes; the value at y = 0
\* is max(0, 1.5 * V / area), which is 1.5 * V / area when the area is positive.
C14_RectangularParabola ==
  (Distributed /\ IsRectangular) =>
     /\ SymmetricWithCentralMaximum
     /\ ShearAt(26) = MathMax(Zero, RectangularPeak)
     /\ Lt(Zero, PropsIn.area) => ShearAt(26) = RectangularPeak

\* 0.2 x 0.4 rectangle, shear force 1000 at the queried sample: 18,750 at y = 0
C14_Witness ==
  /\ Distributed
  /\ IsRectangular
  /\ PropsIn.area = <<2, 25>>
  /\ PointQueryOfDistribution.shearForce = Num(1000)
  /\ ShearAt(26) = Num(18750)
  /\ ShearAt(1) = Zero

\* V * (1 - |y| / maxDistanceFromCentroid) / area at point k
LinearShear(k) ==
  Div(Mul(PointQueryOfDistribution.shearForce,
          Sub(Num(1), Div(MathAbs(PointAt(k).y), MaxDistIn))),
      PropsIn.area)
\* V / area
AverageShear == Div(PointQueryOfDistribution.shearForce, PropsIn.area)

NonNegativeClampedLinear ==
  /\ \A k \in PointIndices : Ge(ShearAt(k), Zero)
  /\ ~IsRectangular => \A k \in PointIndices : ShearAt(k) = MathMax(Zero, LinearShear(k))

FlipSigns(res) ==
  [shearForce |-> [x |-> res.shearForce.x,
                   y |-> [i \in 1..Len(res.shearForce.y) |-> Neg(res.shearForce.y[i])]],
   bendingMoment |-> [y |-> [i \in 1..Len(res.bendingMoment.y) |->
                               Neg(res.bendingMoment.y[i])]]]

\* the point query reports the magnitudes of the sample it selected
ReportsMagnitudes ==
  LET k == CeilingSample(results, stressAtPos[1].position)
      result == stressAtPos[1].result
  IN  /\ result.moment = Magnitude(results.bendingMoment.y[k])
      /\ result.shearForce = Magnitude(results.shearForce.y[k])
      /\ Ge(result.moment, Zero) /\ Ge(result.shearForce, Zero)

\* every point of the distribution is computed from the reported magnitudes
ComputedFromMagnitudes ==
  LET k == CeilingSample(results, distribution[1].position)
      moment == Magnitude(results.bendingMoment.y[k])
      shearForce == Magnitude(results.shearForce.y[k])
  IN  \A p \in PointIndices :
         /\ PointAt(p).bendingStress =
              Div(Mul(moment, MathAbs(PointAt(p).y)), PropsIn.momentOfInertia)
         /\ ~IsRectangular =>
              PointAt(p).shearStress =
                MathMax(Zero, Div(Mul(shearForce,
                                      Sub(Num(1), Div(MathAbs(PointAt(p).y), MaxDistIn))),
                                  PropsIn.area))

\* C16: the point query's moment and shearForce are the absolute values of the
\* selected sample, the transverse distribution is computed from these absolute
\* values, and a diagram with every sign flipped gives the same point-query and
\* distribution results.
C16_SignsDiscarded ==
  /\ (Queried /\ Len(xsOf(results)) > 0) => ReportsMagnitudes
  /\ Queried =>
        stressAtPos[1].result =
          calculateStressAtPosition(beamData, FlipSigns(results), stressAtPos[1].position)
  /\ (Distributed /\ Len(xsOf(results)) > 0) => ComputedFromMagnitudes
  /\ Distributed =>
        distribution[1].points =
          generateCrossSectionStressDistribution(beamData, FlipSigns(results),
                                                 distribution[1].position)

\* a distribution over a sample with negative shear and moment (-2000, -300)
C16_Witness ==
  /\ Distributed
  /\ Len(xsOf(results)) = 2
  /\ results.shearForce.y[2] = Num(-2000)
  /\ results.bendingMoment.y[2] = Num(-300)
  /\ distribution[1].position = Num(1)
  /\ PointQueryOfDistribution.moment = Num(300)
  /\ InertiaIn = <<2, 1875>>
  /\ Lt(Zero, PointAt(51).bendingStress)

----------------------------------------------------------------------------
(* Frame of the engine (SpecCalls) *)

\* what one call leaves behind: the inputs as they were, and every result that
\* was already there for the same arguments
InputsKeptResultsRepeated ==
  /\ beamData' = beamData
  /\ results' = results
  /\ sectionProps # <<>> => sectionProps' = sectionProps
  /\ stresses # <<>> => stresses' = stresses
  /\ (stressAtPos # <<>> /\ stressAtPos'[1].position = stressAtPos[1].position) =>
        stressAtPos' = stressAtPos
  /\ (distribution # <<>> /\ distribution'[1].position = distribution[1].position) =>
        distribution' = distribution

\* C17: no operation (section properties, stress profile, point query,
\* transverse distribution) modifies the section descriptor, the moment of
\* inertia or the force diagram, and no state is carried between calls: after
\* any sequence of calls the inputs are unchanged and a call with the same
\* inputs returns what it returned the first time.
C17_PureOperations == [][InputsKeptResultsRepeated]_vars

\* all four operations have been called, on a beam given without a section
C17_Witness ==
  /\ sectionProps # <<>>
  /\ stresses # <<>>
  /\ stressAtPos # <<>>
  /\ distribution # <<>>
  /\ beamData.section = <<>>
  /\ Len(xsOf(results)) = 2
  /\ stressAtPos[1].position # distribution[1].position

----------------------------------------------------------------------------
(* The section type the switch does not know (SpecProps) *)

\* C18: for a descriptor whose type is missing or is none of rectangular,
\* circular, i-beam, t-beam (a missing section object included) the computed
\* properties are area = 0.15, centroidHeight = 0.25,
\* maxDistanceFromCentroid = 0.25, thickness = 0.3, firstMomentOfArea = 0.01,
\* whatever dimensional fields the descriptor carries.
C18_UnknownTypeFixedValues ==
  (Computed /\ SectionIn.type \notin SectionTypes) =>
     /\ sectionProps[1].area = Norm(15, 100)
     /\ sectionProps[1].centroidHeight = Norm(25, 100)
     /\ sectionProps[1].maxDistanceFromCentroid = Norm(25, 100)
     /\ sectionProps[1].thickness = Norm(3, 10)
     /\ sectionProps[1].firstMomentOfArea = Norm(1, 100)

\* an l-beam that carries width 0.2 and height 0.4
C18_Witness ==
  /\ Computed
  /\ SectionIn.type = "l-beam"
  /\ SectionIn.width = <<1, 5>>
  /\ SectionIn.height = <<2, 5>>
  /\ sectionProps[1].area = <<3, 20>>
  /\ sectionProps[1].thickness = <<3, 10>>

----------------------------------------------------------------------------
(* The sample the point query selects (Spec) *)

\* the samples whose x is the queried position
SamplesAt(position) == {i \in Samples(results) : xsOf(results)[i] = position}
Least(S) == CHOOSE i \in S : \A j \in S : i <= j
\* 1-based number of the sample the query selected
Selected == stressAtPos[1].actualIndex[1] + 1
\* sample k has the x of an earlier sample
LaterDuplicate(k) == \E j \in 1..(k - 1) : xsOf(results)[j] = xsOf(results)[k]
LastX == xsOf(results)[Len(xsOf(results))]

\* a query at the x of a sample returns the profile entries of the first
\* sample with that x
AgreesWithProfileAtSamples ==
  LET position == stressAtPos[1].position
      profile == calculateStresses(beamData, results)
  IN  SamplesAt(position) # {} =>
         /\ Selected = Least(SamplesAt(position))
         /\ stressAtPos[1].result.bendingStress =
              profile.bendingStress[Least(SamplesAt(position))]
         /\ stressAtPos[1].result.shearStress =
              profile.shearStress[Least(SamplesAt(position))]

\* C19 as stated: for a non-empty diagram with non-decreasing x, the point query
\* at position = x[i] returns the profile entries at the least j with
\* x[j] = x[i], and a sample that repeats the x of an earlier one is returned
\* by no query.
C19_AsStated ==
  (Queried /\ Len(xsOf(results)) > 0) =>
     AgreesWithProfileAtSamples /\ ~LaterDuplicate(Selected)

\* C19 (amended): for a non-empty diagram with non-decreasing x, the point query
\* at position = x[i] returns the profile entries at the least j with
\* x[j] = x[i]; a sample that repeats the x of an earlier one is returned by no
\* query at a position <= x[n-1], and every query at a position > x[n-1]
\* returns the last sample, a repeated one included.
C19_AgreesWithProfileAtSamples ==
  (Queried /\ Len(xsOf(results)) > 0) =>
     /\ AgreesWithProfileAtSamples
     /\ Le(stressAtPos[1].position, LastX) => ~LaterDuplicate(Selected)
     /\ Lt(LastX, stressAtPos[1].position) => Selected = Len(xsOf(results))

\* x = [0, 1, 1] with different loads on the two samples at x = 1, queried at 1
C19_Witness ==
  /\ Queried
  /\ xsOf(results) = <<Zero, Num(1), Num(1)>>
  /\ results.bendingMoment.y[2] # results.bendingMoment.y[3]
  /\ stressAtPos[1].position = Num(1)
  /\ Selected = 2
  /\ InertiaIn = <<2, 1875>>

\* the index the query would select at another position
IndexAt(position) == actualIndexOf(results, position) + 1

\* C20: for a non-empty diagram with non-decreasing x the selected index is
\* within 0..n-1 and non-decreasing in the query position (p1 <= p2 implies
\* selectedIndex(p1) <= selectedIndex(p2)); every position <= x[0] selects
\* index 0 and every position > x[n-1] selects index n-1.
C20_IndexInRangeAndMonotone ==
  (Queried /\ Len(xsOf(results)) > 0) =>
     LET position == stressAtPos[1].position
     IN  /\ stressAtPos[1].actualIndex[1] \in 0..(Len(xsOf(results)) - 1)
         /\ \A q \in Positions :
               /\ Le(q, position) => IndexAt(q) <= Selected
               /\ Le(position, q) => Selected <= IndexAt(q)
         /\ Le(position, xsOf(results)[1]) => stressAtPos[1].actualIndex = <<0>>
         /\ Lt(LastX, position) =>
               stressAtPos[1].actualIndex = <<Len(xsOf(results)) - 1>>

\* x = [0, 1, 2] queried beyond the last sample: index 2 is selected
C20_Witness ==
  /\ Queried
  /\ xsOf(results) = <<Zero, Num(1), Num(2)>>
  /\ stressAtPos[1].position = Num(10)
  /\ stressAtPos[1].actualIndex = <<2>>

----------------------------------------------------------------------------
(* The open sections of the input panel (SpecPanel) *)

SectionIds == {sections[i] : i \in 1..Len(sections)}
\* the ids that are open in the array open
OpenIn(open) == {open[i] : i \in 1..Len(open)}
NoDuplicateId(open) == \A i \in 1..Len(open), j \in 1..Len(open) : open[i] = open[j] => i = j

\* toggleSection(id) changes the membership of id and of no other id
TogglesOnlyItsId(id) ==
  LET after == toggleSection(expandedSections, id)
  IN  /\ (id \in OpenIn(after)) # (id \in OpenIn(expandedSections))
      /\ \A other \in SectionIds \ {id} :
            (other \in OpenIn(after)) = (other \in OpenIn(expandedSections))

\* C21: starting from ['length'], after any sequence of toggleSection(id) with
\* id among the seven section ids, Expand All and Collapse All, expandedSections
\* holds no id twice and only the seven known ids, so the displayed count N of
\* open sections satisfies 0 <= N <= 7; toggleSection(id) changes the
\* membership of id only, and toggling the same id twice restores the previous
\* set of open sections.
C21_OpenSections ==
  /\ NoDuplicateId(expandedSections)
  /\ OpenIn(expandedSections) \subseteq SectionIds
  /\ Len(expandedSections) \in 0..7
  /\ Len(expandedSections) = Cardinality(OpenIn(expandedSections))
  /\ \A id \in SectionIds :
        /\ TogglesOnlyItsId(id)
        /\ OpenIn(toggleSection(toggleSection(expandedSections, id), id))
             = OpenIn(expandedSections)

\* every section is open and 'length' is the last of the array: it was closed
\* and opened again after the others
C21_Witness ==
  /\ Len(expandedSections) = 7
  /\ expandedSections[7] = "length"
  /\ expandedSections[1] = "stress"

====
